---- MODULE Spec2Model ----
(***************************************************************************)
(* Model of src/index.ts: the script that deploys two tokens, creates and  *)
(* initializes a Uniswap v3 pool for them, approves the position manager   *)
(* and the swap router, mints a position and performs one swap, resuming   *)
(* from cache.json on later runs.                                          *)
(*                                                                         *)
(* Strings are sequences of UTF-16 code units ("0" = 48, "A" = 65,         *)
(* "a" = 97, "x" = 120).  A bigint is the sequence of its decimal digits,  *)
(* most significant first, without leading zeros (<<0>> is zero).  The     *)
(* empty sequence stands for undefined / null.                             *)
(***************************************************************************)
EXTENDS Integers, Sequences, FiniteSets, TLC

\* ------------------------------------------------------------------ bounds

\* Number of times the script is started.
MaxRuns == 2

\* ------------------------------------------------------- program constants

pool_fee == 500
startingPrice == 1
AddrHexLen == 40
TokenDecimals == 18
SqrtPriceExp == 96

\* ------------------------------------------------------------------ strings

Undefined == <<>>

Zeros(n) == [i \in 1..n |-> 0]

ZeroChars(n) == [i \in 1..n |-> 48]

IsHexChar(c) == (c \in 48..57) \/ (c \in 65..70) \/ (c \in 97..102)

LowerChar(c) == IF c \in 65..90 THEN c + 32 ELSE c

\* String.prototype.toLowerCase
toLowerCase(s) == [i \in 1..Len(s) |-> LowerChar(s[i])]

\* The < of two JavaScript strings: lexicographic on code units.
StrLess(a, b) ==
  \/ /\ Len(a) < Len(b)
     /\ \A i \in 1..Len(a) : a[i] = b[i]
  \/ \E i \in 1..Len(a) :
       /\ i <= Len(b)
       /\ a[i] < b[i]
       /\ \A j \in 1..(i - 1) : a[j] = b[j]

\* String.prototype.slice(-n): the last n code units, the whole string when
\* it is shorter.
SliceLast(s, n) == IF Len(s) <= n THEN s ELSE SubSeq(s, Len(s) - n + 1, Len(s))

\* "0x" followed by the given characters.
Hex0x(body) == <<48, 120>> \o body

\* viem isAddress: /^0x[a-fA-F0-9]{40}$/
IsAddress(s) ==
  /\ Len(s) = AddrHexLen + 2
  /\ s[1] = 48
  /\ s[2] = 120
  /\ \A i \in 3..Len(s) : IsHexChar(s[i])

\* Stand-in for the keccak digest nibble EIP-55 reads at position i.
ChecksumNibble(lower, i) == (lower[i] + 7 * i) % 16

\* viem getAddress: validates, then returns the EIP-55 casing of the address.
\* Undefined stands for the InvalidAddressError it throws.
getAddress(s) ==
  IF ~IsAddress(s) THEN Undefined
  ELSE LET lower == toLowerCase(s) IN
       [i \in 1..Len(s) |->
          IF i > 2 /\ lower[i] \in 97..102 /\ ChecksumNibble(lower, i) >= 8
          THEN lower[i] - 32 ELSE lower[i]]

\* ------------------------------------------------------------------ bigints

\* The digits without leading zeros.
Normalize(d) ==
  LET nz == {i \in 1..Len(d) : d[i] # 0} IN
  IF nz = {} THEN <<0>>
  ELSE SubSeq(d, CHOOSE i \in nz : \A j \in nz : i <= j, Len(d))

RECURSIVE MulAddRec(_, _, _)
MulAddRec(a, k, carry) ==
  IF Len(a) = 0
  THEN IF carry = 0 THEN <<>> ELSE MulAddRec(<<>>, k, carry \div 10) \o <<carry % 10>>
  ELSE LET v == a[Len(a)] * k + carry IN
       MulAddRec(SubSeq(a, 1, Len(a) - 1), k, v \div 10) \o <<v % 10>>

\* a * k + c for a bigint a and small naturals k, c.
BigMulAdd(a, k, c) ==
  LET r == MulAddRec(a, k, c) IN IF r = <<>> THEN <<0>> ELSE Normalize(r)

BigZero == <<0>>

RECURSIVE BigPow2(_)
BigPow2(n) ==
  IF n = 0 THEN <<1>>
  ELSE IF n >= 16 THEN BigMulAdd(BigPow2(n - 16), 65536, 0)
  ELSE BigMulAdd(BigPow2(n - 1), 2, 0)

\* String(bigint): the decimal digits as characters.
String(b) == [i \in 1..Len(b) |-> b[i] + 48]

\* viem parseEther on a string without sign or decimal point: BigInt of the
\* digits followed by 18 zeros.
parseEther(s) == Normalize([i \in 1..Len(s) |-> s[i] - 48] \o Zeros(TokenDecimals))

RECURSIVE HexToBigRec(_, _)
HexToBigRec(h, acc) ==
  IF Len(h) = 0 THEN acc
  ELSE LET c == LowerChar(Head(h))
           v == IF c >= 97 THEN c - 87 ELSE c - 48
       IN HexToBigRec(Tail(h), BigMulAdd(acc, 16, v))

\* The unsigned integer a string of hex digits denotes.
HexToBig(h) ==
  LET nz == {i \in 1..Len(h) : h[i] # 48} IN
  IF nz = {} THEN BigZero
  ELSE HexToBigRec(SubSeq(h, CHOOSE i \in nz : \A j \in nz : i <= j, Len(h)), BigZero)

\* --------------------------------------------------------- configuration

\* contractAddress[wantedChain.name]; each address is written with its first
\* four hex digits, the remaining digits being 0.
FACTORY_ADDRESS == Hex0x(<<50, 69, 49, 55>> \o ZeroChars(AddrHexLen - 4))
SWAP_ROUTER_ADDRESS == Hex0x(<<98, 57, 68, 52>> \o ZeroChars(AddrHexLen - 4))
NONFUNGIBLE_TOKEN_POSITION_MANAGER_ADDRESS ==
  Hex0x(<<48, 54, 57, 102>> \o ZeroChars(AddrHexLen - 4))
QUOTER_V2_ADDRESS == Hex0x(<<100, 69, 52, 49>> \o ZeroChars(AddrHexLen - 4))

token_one_name == "Pudgy"
token_one_symbol == "PUDGY"
token_one_supply == parseEther(<<49, 48, 48, 48>>)

token_two_name == "Penguin"
token_two_symbol == "PENGUIN"
token_two_supply == parseEther(<<49, 48, 48, 48>>)

\* ------------------------------------------------------------------- tokens

\* type Token; tokenSupply is a bigint in memory and a decimal string in the
\* cache file.  NoToken stands for undefined.
NoToken ==
  [address |-> Undefined, tokenName |-> "", tokenSymbol |-> "", tokenSupply |-> Undefined]

MakeToken(addr, name, symbol, supply) ==
  [address |-> addr, tokenName |-> name, tokenSymbol |-> symbol, tokenSupply |-> supply]

\* cache.tokenOne ? {...cache.tokenOne, tokenSupply: parseEther(...)} : undefined
LoadToken(cached) ==
  IF cached = NoToken THEN NoToken
  ELSE [cached EXCEPT !.tokenSupply = parseEther(cached.tokenSupply)]

\* {...token, tokenSupply: String(token.tokenSupply)}
CacheToken(token) == [token EXCEPT !.tokenSupply = String(token.tokenSupply)]

\* OrderPair comparing the addresses as they are, without toLowerCase.
OrderPairCaseSensitive(a, b) ==
  IF StrLess(a.address, b.address) THEN <<a, b>> ELSE <<b, a>>

\* OrderPair keeping the tokens as they are.
OrderPairKeep(a, b) == <<a, b>>

\* tokenOne.address.toLowerCase() < tokenTwo.address.toLowerCase()
\*   ? [tokenOne, tokenTwo] : [tokenTwo, tokenOne]
OrderPair(a, b) ==
  IF StrLess(toLowerCase(a.address), toLowerCase(b.address)) THEN <<a, b>> ELSE <<b, a>>

\* --------------------------------------------------------------- cache file

\* cache.json: absent, or a JSON object with optional tokenOne, tokenTwo and
\* poolAddress.
AbsentFile ==
  [exists |-> FALSE, tokenOne |-> NoToken, tokenTwo |-> NoToken, poolAddress |-> Undefined]

EmptyObject ==
  [exists |-> TRUE, tokenOne |-> NoToken, tokenTwo |-> NoToken, poolAddress |-> Undefined]

\* EnsureCacheFile replacing a file that exists.
EnsureCacheFileReset(file) == EmptyObject

\* if (!fs.existsSync(CACHE_FILE)) fs.writeFileSync(CACHE_FILE, "{}")
EnsureCacheFile(file) == IF file.exists THEN file ELSE EmptyObject

\* SavedRecord without the pool address.
SavedRecordNoPool(one, two, pool) ==
  [exists |-> TRUE, tokenOne |-> CacheToken(one), tokenTwo |-> CacheToken(two),
   poolAddress |-> Undefined]

\* The object saveCache serializes after a bootstrap.
SavedRecord(one, two, pool) ==
  [exists |-> TRUE, tokenOne |-> CacheToken(one), tokenTwo |-> CacheToken(two),
   poolAddress |-> pool]

\* fs.writeFileSync(CACHE_FILE, JSON.stringify(data, null, 2)): the file is
\* replaced by the serialized data.
saveCache(file, data) == data

\* The record a cache file holds: an absent file and {} hold the empty record.
CacheRecord(file) ==
  [tokenOne |-> file.tokenOne, tokenTwo |-> file.tokenTwo, poolAddress |-> file.poolAddress]

\* ---------------------------------------------------------- pool bootstrap

\* A transaction receipt as createPool reads it: contractAddress and the data
\* of each log.
MakeReceipt(addr, logs) == [contractAddress |-> addr, logs |-> logs]

\* ResolvePoolAddress looking at the first log before the contract address.
ResolvePoolAddressLogFirst(receipt) ==
  IF Len(receipt.logs) > 0 /\ receipt.logs[1].data # Undefined
  THEN getAddress(Hex0x(SliceLast(receipt.logs[1].data, AddrHexLen)))
  ELSE receipt.contractAddress

\* createPool, lines 180-187: the receipt's contract address, else the last 40
\* hex characters of the first log's data as an address, else none.  Undefined
\* stands for the Error thrown ("Pool address is not defined", or getAddress
\* rejecting the string).
ResolvePoolAddress(receipt) ==
  IF receipt.contractAddress # Undefined THEN receipt.contractAddress
  ELSE IF Len(receipt.logs) > 0 /\ receipt.logs[1].data # Undefined
       THEN getAddress(Hex0x(SliceLast(receipt.logs[1].data, AddrHexLen)))
       ELSE Undefined

\* Math.sqrt(Number(startingPrice)) for a perfect square.
SqrtNumber(p) == CHOOSE r \in 0..p : r * r = p

\* BigInt(Math.floor(Math.sqrt(Number(startingPrice)) * 2 ** 96))
InitSqrtPriceX96 == BigMulAdd(BigPow2(SqrtPriceExp), SqrtNumber(startingPrice), 0)

\* ------------------------------------------------------------ tick range

MAX_TICK == 887272
MIN_TICK == -MAX_TICK

\* TICK_SPACINGS[fee] of the pool-math library.
TICK_SPACINGS(fee) ==
  CASE fee = 100 -> 1 [] fee = 500 -> 10 [] fee = 3000 -> 60 [] OTHER -> 200

\* Math.round: the nearest integer to t / s, a tie going up.
RoundDiv(t, s) == (2 * t + s) \div (2 * s)

\* nearestUsableTick of the pool-math library.
nearestUsableTick(tick, tickSpacing) ==
  LET rounded == RoundDiv(tick, tickSpacing) * tickSpacing IN
  IF rounded < MIN_TICK THEN rounded + tickSpacing
  ELSE IF rounded > MAX_TICK THEN rounded - tickSpacing
  ELSE rounded

\* TickLower one spacing below the usable tick.
TickLowerOneSpacing(tick, tickSpacing) == nearestUsableTick(tick, tickSpacing) - tickSpacing

\* tickLower: nearestUsableTick(tick, tickSpacing) - tickSpacing * 2
TickLower(tick, tickSpacing) == nearestUsableTick(tick, tickSpacing) - tickSpacing * 2

\* tickUpper: nearestUsableTick(tick, tickSpacing) + tickSpacing * 2
TickUpper(tick, tickSpacing) == nearestUsableTick(tick, tickSpacing) + tickSpacing * 2

\* The invariants the library's Position constructor asserts; the pool's own
\* tick spacing is the one its fee implies.
PositionValid(lo, hi, fee) ==
  /\ lo < hi
  /\ lo >= MIN_TICK /\ lo % TICK_SPACINGS(fee) = 0
  /\ hi <= MAX_TICK /\ hi % TICK_SPACINGS(fee) = 0

\* ------------------------------------------------------------------- quote

\* One 32-byte ABI word holding the given hex digits.
Word(hexdigits) == ZeroChars(64 - Len(hexdigits)) \o hexdigits

\* DecodeUint256 reading the last 32 bytes instead of the first.
DecodeLastWord(data) ==
  IF Len(data) < 2 + 64 THEN Undefined ELSE HexToBig(SliceLast(data, 64))

\* decodeAbiParameters([{type: "uint256"}], data): the first 32 bytes as an
\* unsigned integer; Undefined stands for the error thrown on shorter data.
DecodeUint256(data) ==
  IF Len(data) < 2 + 64 THEN Undefined ELSE HexToBig(SubSeq(data, 3, 2 + 64))

\* String(parseEther(String(parseEther("1")))) as a raw amount
InputAmountRaw == parseEther(String(parseEther(<<49>>)))

\* ------------------------------------------------------------- environment

\* Receipts of one run that report a reverted transaction.
MaxReverts == 1

\* The address the chain gives the n-th contract the signer deploys: mixed
\* case, as a node may report it.
TokenAddrTable == <<66, 97, 49, 67, 100, 57>>

TokenAddrAt(n) ==
  Hex0x(<<TokenAddrTable[(n % 6) + 1], 48 + ((n \div 10) % 10), 48 + (n % 10)>>
        \o ZeroChars(AddrHexLen - 3))

\* The address of the pool the factory creates for a pair of tokens: one per
\* pair, whichever order the tokens are given in.
PoolAddrFor(a, b) ==
  LET first == IF StrLess(toLowerCase(a), toLowerCase(b)) THEN a ELSE b IN
  Hex0x(<<IF first[5] % 2 = 0 THEN 69 ELSE 102, 70, first[4], first[5]>>
        \o ZeroChars(AddrHexLen - 4))

\* The data of a PoolCreated event: tick spacing, then the pool address.
PoolCreatedData(p) ==
  Hex0x(Word(<<97>>) \o ZeroChars(24) \o SubSeq(toLowerCase(p), 3, AddrHexLen + 2))

\* The data of a log that is no PoolCreated event (a fee transfer amount).
FeeLogData == Hex0x(Word(<<49, 50, 97, 98>>))

\* The receipts a node may return for the transaction that created pool p;
\* the usual one names the pool as the contract address.
UsualReceipt(p) == MakeReceipt(p, <<[data |-> FeeLogData]>>)

CreatePoolReceipts(p) ==
  { UsualReceipt(p),
    MakeReceipt(Undefined, <<[data |-> PoolCreatedData(p)]>>),
    MakeReceipt(Undefined, <<[data |-> FeeLogData]>>),
    MakeReceipt(Undefined, <<[data |-> Hex0x(<<49, 50>>)]>>),
    MakeReceipt(Undefined, <<[data |-> Undefined]>>),
    MakeReceipt(Undefined, <<>>) }

\* (tick, tickSpacing) pairs a pool may report.
UsualTick == <<7, 10>>

TickCases ==
  { <<-5, 10>>, <<-15, 10>>, <<7, 10>>, <<30, 60>>, <<3, 1>>, <<MIN_TICK + 2, 10>> }

\* What the quoter call may return: nothing, two words, one word, less than
\* a word.
UsualQuote ==
  Hex0x(Word(<<54, 102, 48, 53, 98, 53, 57, 100, 51, 98, 50, 48, 48, 48, 48>>)
        \o Word(<<49>>))

QuoteDatas ==
  { Undefined,
    UsualQuote,
    Hex0x(Word(<<68, 101>>)),
    Hex0x(<<49, 50>>) }

\* The balances the signer may have: none, or one ether.
Balances == {BigZero, parseEther(<<49>>)}

\* A behaviour varies one part of the environment and keeps the usual answer
\* for the others: the createPool receipt, the status of the receipts, the
\* pool's tick, the quoter's answer, or the cache file the first run finds.
\* Calls may throw in all of them.
Scenarios == {"receipts", "reverts", "ticks", "quotes", "edited"}

\* A cache.json that was not written by this version of main: the two tokens
\* of an earlier bootstrap with tokenOne the higher address.  The tokens and
\* their pool are on chain.
EditedCache ==
  SavedRecord(MakeToken(TokenAddrAt(0), token_one_name, token_one_symbol, token_one_supply),
              MakeToken(TokenAddrAt(1), token_two_name, token_two_symbol, token_two_supply),
              PoolAddrFor(TokenAddrAt(0), TokenAddrAt(1)))

\* ------------------------------------------------------------------- state

VARIABLES
  scenario,        \* the part of the environment that varies
  pc,              \* where main is: "idle" before a run, "done", "failed" after
  runs,            \* runs started
  create,          \* process.argv.includes("--create")
  cache,           \* the parsed cache file
  tokenOne, tokenTwo, poolAddress,   \* main's variables
  newPoolAddress,  \* createPool's poolAddress
  pairIdx,         \* position of giveAllowances' loops, 0..3
  pending,         \* the transaction whose receipt is awaited
  sdkTokens,       \* addresses of TokenOneUniswapSdkCore, TokenTwoUniswapSdkCore
  pool, position,  \* the Pool and Position objects
  amountIn,        \* the decoded quote
  cacheFile,       \* cache.json
  deployed,        \* chain: contracts the signer has deployed
  allow,           \* chain: allowance of each spender on each token
  pools,           \* chain: the pools that exist
  reverts,         \* reverted receipts of this run
  log,             \* history: what this run has done, in order
  loaded,          \* history: cache.json as the run found it
  allowStart,      \* history: the allowances as the run found them
  ethBalance       \* main's ethBalance, Undefined before it is read

procVars ==
  <<scenario, create, cache, tokenOne, tokenTwo, poolAddress, newPoolAddress, pairIdx,
    sdkTokens, pool, position, amountIn>>

chainVars == <<deployed, allow, pools>>

envVars == <<deployed, allow, pools, reverts>>

vars ==
  <<scenario, pc, runs, create, cache, tokenOne, tokenTwo, poolAddress, newPoolAddress,
    pairIdx, pending, sdkTokens, pool, position, amountIn, cacheFile, deployed,
    allow, pools,
    reverts, log, loaded, allowStart, ethBalance>>

\* An entry of the history, and the shape of a transaction.
Event(ev, kind) ==
  [ev |-> ev, kind |-> kind, to |-> Undefined, tokenA |-> Undefined,
   tokenB |-> Undefined, spender |-> Undefined, amount |-> Undefined, fee |-> 0,
   name |-> "", symbol |-> "", tick |-> 0, tickSpacing |-> 0, tickLower |-> 0,
   tickUpper |-> 0, status |-> "", data |-> Undefined]

NoTx == Event("none", "")

NoPool == [token0 |-> Undefined, token1 |-> Undefined, fee |-> 0, tick |-> 0]

NoPosition == [tickLower |-> 0, tickUpper |-> 0]

\* ------------------------------------------------------------------ chain

Spenders == {NONFUNGIBLE_TOKEN_POSITION_MANAGER_ADDRESS, SWAP_ROUTER_ADDRESS}

\* A newly deployed token has granted no allowance.
ChainDeploy(a, addr) == a @@ (toLowerCase(addr) :> [sp \in Spenders |-> BigZero])

\* allowance(owner, spender) of the token at addr.
ChainAllowance(a, addr, spender) == a[toLowerCase(addr)][spender]

\* approve(spender, amount) on the token at addr.
ChainApprove(a, addr, spender, amount) ==
  [a EXCEPT ![toLowerCase(addr)][spender] = amount]

\* The spender may take the signer's tokens at addr: a transfer without an
\* allowance reverts.
ChainCanSpend(a, addr, spender) ==
  /\ toLowerCase(addr) \in DOMAIN a
  /\ a[toLowerCase(addr)][spender] # BigZero

ReceiptStatuses ==
  IF scenario = "reverts" /\ reverts < MaxReverts THEN {"success", "reverted"}
  ELSE {"success"}

Init ==
  /\ scenario \in Scenarios
  /\ pc = "idle"
  /\ runs = 0
  /\ create = FALSE
  /\ cache = AbsentFile
  /\ tokenOne = NoToken
  /\ tokenTwo = NoToken
  /\ poolAddress = Undefined
  /\ newPoolAddress = Undefined
  /\ pairIdx = 0
  /\ pending = NoTx
  /\ sdkTokens = <<Undefined, Undefined>>
  /\ pool = NoPool
  /\ position = NoPosition
  /\ amountIn = Undefined
  /\ cacheFile = IF scenario = "edited" THEN EditedCache ELSE AbsentFile
  /\ deployed = IF scenario = "edited" THEN 2 ELSE 0
  /\ allow = IF scenario = "edited"
             THEN ChainDeploy(ChainDeploy(<<>>, TokenAddrAt(0)), TokenAddrAt(1))
             ELSE <<>>
  /\ pools = IF scenario = "edited"
             THEN {toLowerCase(PoolAddrFor(TokenAddrAt(0), TokenAddrAt(1)))}
             ELSE {}
  /\ reverts = 0
  /\ log = <<>>
  /\ loaded = AbsentFile
  /\ allowStart = <<>>
  /\ ethBalance = Undefined

\* ---------------------------------------------------------------- the run

\* The pair giveAllowances' loops are at: tokens = [tokenOne, tokenTwo],
\* contracts = [position manager, swap router].
PairToken == IF pairIdx \div 2 = 0 THEN tokenOne ELSE tokenTwo

PairSpender ==
  IF pairIdx % 2 = 0 THEN NONFUNGIBLE_TOKEN_POSITION_MANAGER_ADDRESS
  ELSE SWAP_ROUTER_ADDRESS

\* NeedsBootstrap deploying on every run.
NeedsBootstrapAlways(c, one, two) == TRUE

\* NeedsBootstrap without the --create flag.
NeedsBootstrapIgnoringFlag(c, one, two) == one = NoToken \/ two = NoToken

\* create || !tokenOne || !tokenTwo
NeedsBootstrap(c, one, two) == c \/ one = NoToken \/ two = NoToken

\* Module initialisation and main up to the balance read: the cache file is
\* created when absent and parsed, the tokens and the pool address are taken
\* from it.
StartRun ==
  /\ pc \in {"idle", "done", "failed"}
  /\ runs < MaxRuns
  /\ \E c \in BOOLEAN, hasKey \in BOOLEAN :
       LET file == EnsureCacheFile(cacheFile) IN
       /\ runs' = runs + 1
       /\ create' = c
       /\ loaded' = cacheFile
       /\ allowStart' = allow
       /\ ethBalance' = Undefined
       /\ cacheFile' = file
       /\ cache' = file
       /\ log' = <<>>
       /\ pending' = NoTx
       /\ newPoolAddress' = Undefined
       /\ pairIdx' = 0
       /\ sdkTokens' = <<Undefined, Undefined>>
       /\ pool' = NoPool
       /\ position' = NoPosition
       /\ amountIn' = Undefined
       /\ IF hasKey
          THEN /\ tokenOne' = LoadToken(file.tokenOne)
               /\ tokenTwo' = LoadToken(file.tokenTwo)
               /\ poolAddress' = file.poolAddress
               /\ pc' = "getBalance"
          ELSE /\ tokenOne' = NoToken
               /\ tokenTwo' = NoToken
               /\ poolAddress' = Undefined
               /\ pc' = "failed"
       /\ reverts' = 0
       /\ UNCHANGED <<scenario, chainVars>>

\* IsZeroBalance letting every balance pass.
IsZeroBalanceNever(b) == FALSE

\* if (ethBalance === 0n)
IsZeroBalance(b) == b = BigZero

\* The balance read and the branch on create and the loaded tokens.
GetBalance ==
  /\ pc = "getBalance"
  /\ \E balance \in Balances :
       /\ ethBalance' = balance
       /\ pc' = IF IsZeroBalance(balance) THEN "failed"
                ELSE IF NeedsBootstrap(create, tokenOne, tokenTwo) THEN "deployOne"
                ELSE "allowance"
  /\ UNCHANGED <<runs, procVars, pending, cacheFile, envVars, log, loaded, allowStart>>

\* A call to the node throws (a read, or the submission of a transaction).
RpcFail ==
  /\ pc \in {"getBalance", "deployOne", "deployTwo", "createPool", "initialize",
             "allowance", "approve", "poolRead", "mint", "quote", "swap"}
  /\ pending = NoTx
  /\ pc' = "failed"
  /\ UNCHANGED <<runs, procVars, pending, cacheFile, envVars, log, loaded, allowStart, ethBalance>>

\* CanSubmit not waiting for the receipt of the transaction before.
CanSubmitAlways(p) == TRUE

\* A transaction is submitted only where main is past the await of the
\* receipt of the one before.
CanSubmit(p) == p = NoTx

\* deployToken: client.deployContract
SubmitDeploy ==
  /\ pc \in {"deployOne", "deployTwo"}
  /\ CanSubmit(pending)
  /\ LET tx == [Event("submit", "deploy") EXCEPT
                  !.name = IF pc = "deployOne" THEN token_one_name ELSE token_two_name,
                  !.symbol = IF pc = "deployOne" THEN token_one_symbol
                             ELSE token_two_symbol,
                  !.amount = IF pc = "deployOne" THEN token_one_supply
                             ELSE token_two_supply]
     IN /\ pending' = tx
        /\ log' = Append(log, tx)
  /\ UNCHANGED <<pc, runs, procVars, cacheFile, envVars, loaded, allowStart, ethBalance>>

\* deployToken: the receipt, and main up to the next await.  After the second
\* deployment the two tokens are put in address order.
ReceiptDeploy ==
  /\ pc \in {"deployOne", "deployTwo"}
  /\ pending.kind = "deploy"
  /\ \E addr \in {TokenAddrAt(deployed), Undefined} :
       LET token == MakeToken(addr, pending.name, pending.symbol, pending.amount) IN
       /\ deployed' = deployed + 1
       /\ allow' = IF addr = Undefined THEN allow ELSE ChainDeploy(allow, addr)
       /\ log' = Append(log, [Event("receipt", "deploy") EXCEPT
                                !.status = "success", !.to = addr])
       /\ pending' = NoTx
       /\ IF addr = Undefined
          THEN /\ pc' = "failed"
               /\ UNCHANGED <<tokenOne, tokenTwo>>
          ELSE IF pc = "deployOne"
          THEN /\ pc' = "deployTwo"
               /\ tokenOne' = token
               /\ UNCHANGED tokenTwo
          ELSE /\ pc' = "createPool"
               /\ tokenOne' = OrderPair(tokenOne, token)[1]
               /\ tokenTwo' = OrderPair(tokenOne, token)[2]
  /\ UNCHANGED <<scenario, runs, create, cache, poolAddress, newPoolAddress, pairIdx,
                 sdkTokens, pool, position, amountIn, cacheFile, pools, reverts,
                 loaded, allowStart, ethBalance>>

\* createPool: walletClient.writeContract(createPool)
SubmitCreatePool ==
  /\ pc = "createPool"
  /\ CanSubmit(pending)
  /\ LET tx == [Event("submit", "createPool") EXCEPT
                  !.to = FACTORY_ADDRESS,
                  !.tokenA = tokenOne.address,
                  !.tokenB = tokenTwo.address,
                  !.fee = pool_fee]
     IN /\ pending' = tx
        /\ log' = Append(log, tx)
  /\ UNCHANGED <<pc, runs, procVars, cacheFile, envVars, loaded, allowStart, ethBalance>>

\* createPool: the receipt and the resolution of the pool address.
ReceiptCreatePool ==
  /\ pc = "createPool"
  /\ pending.kind = "createPool"
  /\ \E receipt \in IF scenario = "receipts"
                     THEN CreatePoolReceipts(PoolAddrFor(pending.tokenA, pending.tokenB))
                     ELSE {UsualReceipt(PoolAddrFor(pending.tokenA, pending.tokenB))} :
       LET resolved == ResolvePoolAddress(receipt) IN
       /\ pools' = pools \cup {toLowerCase(PoolAddrFor(pending.tokenA, pending.tokenB))}
       /\ log' = Append(log, [Event("receipt", "createPool") EXCEPT
                                !.status = "success",
                                !.to = receipt.contractAddress,
                                !.data = IF Len(receipt.logs) = 0 THEN Undefined
                                         ELSE receipt.logs[1].data])
       /\ pending' = NoTx
       /\ newPoolAddress' = resolved
       /\ pc' = IF resolved = Undefined THEN "failed" ELSE "initialize"
  /\ UNCHANGED <<scenario, runs, create, cache, tokenOne, tokenTwo, poolAddress, pairIdx,
                 sdkTokens, pool, position, amountIn, cacheFile, deployed, allow,
                 reverts, loaded, allowStart, ethBalance>>

\* createPool: walletClient.writeContract(createAndInitializePoolIfNecessary)
SubmitInitialize ==
  /\ pc = "initialize"
  /\ CanSubmit(pending)
  /\ LET tx == [Event("submit", "initialize") EXCEPT
                  !.to = NONFUNGIBLE_TOKEN_POSITION_MANAGER_ADDRESS,
                  !.tokenA = tokenOne.address,
                  !.tokenB = tokenTwo.address,
                  !.fee = pool_fee,
                  !.amount = InitSqrtPriceX96]
     IN /\ pending' = tx
        /\ log' = Append(log, tx)
  /\ UNCHANGED <<pc, runs, procVars, cacheFile, envVars, loaded, allowStart, ethBalance>>

\* createPool returns after the receipt; main takes the pool address and saves
\* the cache.
ReceiptInitialize ==
  /\ pc = "initialize"
  /\ pending.kind = "initialize"
  /\ \E status \in ReceiptStatuses :
       /\ reverts' = IF status = "reverted" THEN reverts + 1 ELSE reverts
       /\ log' = log \o <<[Event("receipt", "initialize") EXCEPT !.status = status],
                          Event("save", "")>>
  /\ pending' = NoTx
  /\ poolAddress' = newPoolAddress
  /\ cacheFile' = saveCache(cacheFile, SavedRecord(tokenOne, tokenTwo, newPoolAddress))
  /\ pc' = "allowance"
  /\ UNCHANGED <<scenario, runs, create, cache, tokenOne, tokenTwo, newPoolAddress, pairIdx,
                 sdkTokens, pool, position, amountIn, deployed, allow, pools,
                 loaded, allowStart, ethBalance>>

\* AfterPair leaving giveAllowances after the first pair.
AfterPairFirstOnly ==
  /\ pc' = "poolRead"
  /\ tokenOne' = OrderPair(tokenOne, tokenTwo)[1]
  /\ tokenTwo' = OrderPair(tokenOne, tokenTwo)[2]
  /\ UNCHANGED pairIdx

\* giveAllowances: the allowance read of the pair the loops are at.  After
\* the last pair main puts the tokens in address order again.
AfterPair ==
  IF pairIdx = 3
  THEN /\ pc' = "poolRead"
       /\ tokenOne' = OrderPair(tokenOne, tokenTwo)[1]
       /\ tokenTwo' = OrderPair(tokenOne, tokenTwo)[2]
       /\ UNCHANGED pairIdx
  ELSE /\ pc' = "allowance"
       /\ pairIdx' = pairIdx + 1
       /\ UNCHANGED <<tokenOne, tokenTwo>>

\* NeedsApproval approving whatever the allowance is.
NeedsApprovalAlways(allowance) == TRUE

\* if (allowance === 0n)
NeedsApproval(allowance) == allowance = BigZero

ReadAllowance ==
  /\ pc = "allowance"
  /\ toLowerCase(PairToken.address) \in DOMAIN allow
  /\ LET allowance == ChainAllowance(allow, PairToken.address, PairSpender) IN
     /\ log' = Append(log, [Event("allowance", "") EXCEPT
                              !.to = PairToken.address,
                              !.spender = PairSpender,
                              !.amount = allowance])
     /\ IF NeedsApproval(allowance)
        THEN /\ pc' = "approve"
             /\ UNCHANGED <<tokenOne, tokenTwo, pairIdx>>
        ELSE AfterPair
  /\ UNCHANGED <<scenario, runs, create, cache, poolAddress, newPoolAddress, pending,
                 sdkTokens, pool, position, amountIn, cacheFile, envVars, loaded, allowStart, ethBalance>>

\* giveAllowances: walletClient.writeContract(approve)
SubmitApprove ==
  /\ pc = "approve"
  /\ CanSubmit(pending)
  /\ LET tx == [Event("submit", "approve") EXCEPT
                  !.to = PairToken.address,
                  !.spender = PairSpender,
                  !.amount = PairToken.tokenSupply]
     IN /\ pending' = tx
        /\ log' = Append(log, tx)
  /\ UNCHANGED <<pc, runs, procVars, cacheFile, envVars, loaded, allowStart, ethBalance>>

\* giveAllowances: the approval's receipt; the loops go on.
ReceiptApprove ==
  /\ pc = "approve"
  /\ pending.kind = "approve"
  /\ \E status \in ReceiptStatuses :
       /\ reverts' = IF status = "reverted" THEN reverts + 1 ELSE reverts
       /\ allow' = IF status = "success"
                   THEN ChainApprove(allow, pending.to, pending.spender, pending.amount)
                   ELSE allow
       /\ log' = Append(log, [Event("receipt", "approve") EXCEPT
                                !.status = status,
                                !.to = pending.to,
                                !.spender = pending.spender])
  /\ pending' = NoTx
  /\ AfterPair
  /\ UNCHANGED <<scenario, runs, create, cache, poolAddress, newPoolAddress, sdkTokens, pool,
                 position, amountIn, cacheFile, deployed, pools, loaded, allowStart, ethBalance>>

\* SdkPool built without the tick that was read.
SdkPoolZeroTick(a, b, fee, tick) ==
  [token0 |-> IF StrLess(toLowerCase(a), toLowerCase(b)) THEN a ELSE b,
   token1 |-> IF StrLess(toLowerCase(a), toLowerCase(b)) THEN b ELSE a,
   fee |-> fee, tick |-> 0]

\* The Pool constructor of the pool-math library: it keeps the two tokens in
\* address order.
SdkPool(a, b, fee, tick) ==
  [token0 |-> IF StrLess(toLowerCase(a), toLowerCase(b)) THEN a ELSE b,
   token1 |-> IF StrLess(toLowerCase(a), toLowerCase(b)) THEN b ELSE a,
   fee |-> fee, tick |-> tick]

\* The four pool reads, the Token, Pool and Position objects and the mint call
\* parameters.
PoolRead ==
  /\ pc = "poolRead"
  /\ poolAddress # Undefined
  /\ toLowerCase(poolAddress) \in pools
  /\ \E tc \in IF scenario = "ticks" THEN TickCases ELSE {UsualTick} :
       LET tick == tc[1]
           tickSpacing == tc[2]
           one == getAddress(tokenOne.address)
           two == getAddress(tokenTwo.address)
           lo == TickLower(tick, tickSpacing)
           hi == TickUpper(tick, tickSpacing)
           ok == one # Undefined /\ two # Undefined /\ PositionValid(lo, hi, pool_fee)
       IN /\ log' = Append(log, [Event("poolRead", "") EXCEPT
                                   !.to = poolAddress,
                                   !.tick = tick,
                                   !.tickSpacing = tickSpacing,
                                   !.fee = pool_fee])
          /\ sdkTokens' = <<one, two>>
          /\ pool' = IF one # Undefined /\ two # Undefined
                     THEN SdkPool(one, two, pool_fee, tick) ELSE NoPool
          /\ position' = IF ok THEN [tickLower |-> lo, tickUpper |-> hi] ELSE NoPosition
          /\ pc' = IF ok THEN "mint" ELSE "failed"
  /\ UNCHANGED <<scenario, runs, create, cache, tokenOne, tokenTwo, poolAddress, newPoolAddress,
                 pairIdx, pending, amountIn, cacheFile, envVars, loaded, allowStart, ethBalance>>

\* walletClient.sendRawTransaction of the prepared mint
SubmitMint ==
  /\ pc = "mint"
  /\ CanSubmit(pending)
  /\ LET tx == [Event("submit", "mint") EXCEPT
                  !.to = NONFUNGIBLE_TOKEN_POSITION_MANAGER_ADDRESS,
                  !.tokenA = pool.token0,
                  !.tokenB = pool.token1,
                  !.fee = pool.fee,
                  !.tick = pool.tick,
                  !.tickLower = position.tickLower,
                  !.tickUpper = position.tickUpper]
     IN /\ pending' = tx
        /\ log' = Append(log, tx)
  /\ UNCHANGED <<pc, runs, procVars, cacheFile, envVars, loaded, allowStart, ethBalance>>

\* The mint's receipt.  A mint the allowances do not cover reverts.
ReceiptMint ==
  /\ pc = "mint"
  /\ pending.kind = "mint"
  /\ LET npm == NONFUNGIBLE_TOKEN_POSITION_MANAGER_ADDRESS
         covered == /\ ChainCanSpend(allow, pending.tokenA, npm)
                    /\ ChainCanSpend(allow, pending.tokenB, npm)
     IN \E status \in IF covered THEN ReceiptStatuses ELSE {"reverted"} :
          /\ reverts' = IF status = "reverted" /\ reverts < MaxReverts
                        THEN reverts + 1 ELSE reverts
          /\ log' = Append(log, [Event("receipt", "mint") EXCEPT !.status = status])
  /\ pending' = NoTx
  /\ pc' = "quote"
  /\ UNCHANGED <<runs, procVars, cacheFile, chainVars, loaded, allowStart, ethBalance>>

\* The quoter call and the decoding of what it returns.
QuoteCall ==
  /\ pc = "quote"
  /\ \E data \in IF scenario = "quotes" THEN QuoteDatas ELSE {UsualQuote} :
       LET decoded == IF data = Undefined THEN Undefined ELSE DecodeUint256(data) IN
       /\ log' = Append(log, [Event("quote", "") EXCEPT
                                !.to = QUOTER_V2_ADDRESS,
                                !.tokenA = sdkTokens[1],
                                !.tokenB = sdkTokens[2],
                                !.amount = InputAmountRaw,
                                !.fee = pool.fee,
                                !.tick = pool.tick,
                                !.data = data])
       /\ amountIn' = decoded
       /\ pc' = IF decoded = Undefined THEN "failed" ELSE "swap"
  /\ UNCHANGED <<scenario, runs, create, cache, tokenOne, tokenTwo, poolAddress, newPoolAddress,
                 pairIdx, pending, sdkTokens, pool, position, cacheFile, envVars,
                 loaded, allowStart, ethBalance>>

\* walletClient.writeContract(exactInputSingle)
SubmitSwap ==
  /\ pc = "swap"
  /\ CanSubmit(pending)
  /\ LET tx == [Event("submit", "swap") EXCEPT
                  !.to = SWAP_ROUTER_ADDRESS,
                  !.tokenA = sdkTokens[1],
                  !.tokenB = sdkTokens[2],
                  !.amount = amountIn,
                  !.fee = pool_fee]
     IN /\ pending' = tx
        /\ log' = Append(log, tx)
  /\ UNCHANGED <<pc, runs, procVars, cacheFile, envVars, loaded, allowStart, ethBalance>>

\* The swap's receipt: main is done.  A swap the allowance does not cover
\* reverts.
ReceiptSwap ==
  /\ pc = "swap"
  /\ pending.kind = "swap"
  /\ LET covered == ChainCanSpend(allow, pending.tokenA, SWAP_ROUTER_ADDRESS)
     IN \E status \in IF covered THEN ReceiptStatuses ELSE {"reverted"} :
          /\ reverts' = IF status = "reverted" /\ reverts < MaxReverts
                        THEN reverts + 1 ELSE reverts
          /\ log' = Append(log, [Event("receipt", "swap") EXCEPT !.status = status])
  /\ pending' = NoTx
  /\ pc' = "done"
  /\ UNCHANGED <<runs, procVars, cacheFile, chainVars, loaded, allowStart, ethBalance>>

Next ==
  \/ StartRun
  \/ GetBalance
  \/ RpcFail
  \/ SubmitDeploy
  \/ ReceiptDeploy
  \/ SubmitCreatePool
  \/ ReceiptCreatePool
  \/ SubmitInitialize
  \/ ReceiptInitialize
  \/ ReadAllowance
  \/ SubmitApprove
  \/ ReceiptApprove
  \/ PoolRead
  \/ SubmitMint
  \/ ReceiptMint
  \/ QuoteCall
  \/ SubmitSwap
  \/ ReceiptSwap

Spec == Init /\ [][Next]_vars

\* ------------------------------------------------------------- properties

\* Positions of the history that hold an entry of the given kind.
Entries(ev, kind) == {i \in 1..Len(log) : log[i].ev = ev /\ log[i].kind = kind}

Submits(kind) == Entries("submit", kind)

BootKinds == {"deploy", "createPool", "initialize"}

\* The cache file holds both tokens and a pool address.
Populated(file) ==
  /\ file.tokenOne # NoToken
  /\ file.tokenTwo # NoToken
  /\ file.poolAddress # Undefined

\* The addresses this run's deployments returned.
DeployedNow ==
  {log[i].to : i \in {j \in Entries("receipt", "deploy") : log[j].to # Undefined}}

\* C1. A run without --create that loaded both tokens and a pool address
\* submits no deployment, no createPool and no initialize, writes no cache,
\* and the first thing it does is an allowance read.
ResumeIdempotence ==
  (runs > 0 /\ ~create /\ Populated(loaded)) =>
    /\ \A k \in BootKinds : Submits(k) = {}
    /\ Entries("save", "") = {}
    /\ (Len(log) > 0 => log[1].ev = "allowance")

ResumeWitness ==
  /\ runs > 0 /\ ~create /\ Populated(loaded)
  /\ pc = "done"
  /\ log[1].ev = "allowance"

\* C2. createPool and initialize both receive the two deployed addresses with
\* the lower one first under case-insensitive comparison, whichever
\* deployment returned it.
CanonicalOrderAtBootstrap ==
  \A i \in Submits("createPool") \cup Submits("initialize") :
    /\ StrLess(toLowerCase(log[i].tokenA), toLowerCase(log[i].tokenB))
    /\ {log[i].tokenA, log[i].tokenB} = DeployedNow
    /\ \A j \in Submits("createPool") \cup Submits("initialize") :
         log[j].tokenA = log[i].tokenA /\ log[j].tokenB = log[i].tokenB

\* The second deployment returned the lower address, and the one that is
\* lower only when case is ignored.
CanonicalOrderWitness ==
  /\ Submits("initialize") # {}
  /\ \E i, j \in Entries("receipt", "deploy") :
       /\ i < j
       /\ StrLess(toLowerCase(log[j].to), toLowerCase(log[i].to))
       /\ StrLess(log[i].to, log[j].to)

\* The entries of the history that belong to the bootstrap.
IsBootEntry(e) ==
  \/ e.ev = "save"
  \/ e.ev \in {"submit", "receipt"} /\ e.kind \in BootKinds

BootTrace ==
  LET b == SelectSeq(log, IsBootEntry) IN [i \in 1..Len(b) |-> <<b[i].ev, b[i].kind>>]

ExpectedBootTrace ==
  << <<"submit", "deploy">>, <<"receipt", "deploy">>,
     <<"submit", "deploy">>, <<"receipt", "deploy">>,
     <<"submit", "createPool">>, <<"receipt", "createPool">>,
     <<"submit", "initialize">>, <<"receipt", "initialize">>,
     <<"save", "">> >>

\* 2^96 = 79228162514264337593543950336
TwoPow96 ==
  <<7, 9, 2, 2, 8, 1, 6, 2, 5, 1, 4, 2, 6, 4, 3, 3, 7, 5, 9, 3, 5, 4, 3, 9, 5, 0, 3, 3, 6>>

\* The cache file holds the two tokens this run deployed and the pool address
\* this run resolved.
CacheHoldsThisBootstrap ==
  /\ cacheFile.exists
  /\ {cacheFile.tokenOne.address, cacheFile.tokenTwo.address} = DeployedNow
  /\ Cardinality(DeployedNow) = 2
  /\ {cacheFile.tokenOne.tokenName, cacheFile.tokenTwo.tokenName}
       = {token_one_name, token_two_name}
  /\ cacheFile.poolAddress # Undefined
  /\ cacheFile.poolAddress = newPoolAddress

\* A run that starts on an absent or empty cache, or with --create.
BootstrapRun == runs > 0 /\ (create \/ CacheRecord(loaded) = CacheRecord(AbsentFile))

\* C3. In a bootstrap run the bootstrap goes: deployment, deployment,
\* createPool, initialize with sqrtPriceX96 = 2^96, each confirmed before the
\* next, then one cache write holding both tokens and the resolved pool
\* address; the cache record is untouched before that write, and a run that
\* completes has done all of it.
BootstrapScenario ==
  BootstrapRun =>
    /\ Len(BootTrace) <= Len(ExpectedBootTrace)
    /\ BootTrace = SubSeq(ExpectedBootTrace, 1, Len(BootTrace))
    /\ \A i \in Submits("initialize") : log[i].amount = TwoPow96
    /\ (Entries("save", "") = {} => CacheRecord(cacheFile) = CacheRecord(loaded))
    /\ (Entries("save", "") # {} => CacheHoldsThisBootstrap)
    /\ (pc = "done" => BootTrace = ExpectedBootTrace)

BootstrapWitness ==
  /\ BootstrapRun
  /\ ~create
  /\ pc = "done"
  /\ Entries("save", "") # {}

ApprovalsFor(token, spender) ==
  {j \in Submits("approve") : log[j].to = token /\ log[j].spender = spender}

\* The tokens the run works with once it is past the bootstrap.
RunTokens == {tokenOne.address, tokenTwo.address}

\* C5. A nonzero allowance read is followed by no approval of that pair; a
\* zero read is followed at once by one approval of that pair and then by its
\* receipt, before anything else is read; approvals come from zero reads only;
\* a run reads each of the four pairs at most once and approves at most four
\* times; and a run that found all four allowances granted approves nothing.
AllowanceIdempotence ==
  /\ \A i \in Entries("allowance", "") :
       /\ log[i].to \in RunTokens /\ log[i].spender \in Spenders
       /\ \A k \in Entries("allowance", "") :
            (log[k].to = log[i].to /\ log[k].spender = log[i].spender) => k = i
       /\ IF log[i].amount # BigZero
          THEN ApprovalsFor(log[i].to, log[i].spender) = {}
          ELSE /\ ApprovalsFor(log[i].to, log[i].spender) \subseteq {i + 1}
               /\ (i + 1 <= Len(log) => ApprovalsFor(log[i].to, log[i].spender) = {i + 1})
               /\ (i + 2 <= Len(log) =>
                     /\ log[i + 2].ev = "receipt" /\ log[i + 2].kind = "approve"
                     /\ log[i + 2].to = log[i].to /\ log[i + 2].spender = log[i].spender)
  /\ \A j \in Submits("approve") :
       /\ j > 1
       /\ log[j - 1].ev = "allowance" /\ log[j - 1].amount = BigZero
       /\ log[j - 1].to = log[j].to /\ log[j - 1].spender = log[j].spender
  /\ Cardinality(Entries("allowance", "")) <= 4
  /\ Cardinality(Submits("approve")) <= 4
  /\ ( /\ runs > 0 /\ ~create /\ Populated(loaded)
       /\ \A c \in {loaded.tokenOne, loaded.tokenTwo} : \A sp \in Spenders :
            ChainAllowance(allowStart, c.address, sp) # BigZero )
     => Submits("approve") = {}

\* A second run that read all four allowances after the first had them
\* confirmed.
AllowanceWitness ==
  /\ runs = 2 /\ ~create /\ Populated(loaded)
  /\ Cardinality(Entries("allowance", "")) = 4
  /\ \A i \in Entries("allowance", "") : log[i].amount # BigZero
  /\ Submits("approve") = {}

\* 10^21: the supply both deployments mint, parseEther("1000").
MintedSupply == <<1>> \o Zeros(21)

\* C6. Every approval grants the token's minted supply, in the run that
\* deployed the token and in a run that loaded it from the cache.
ApprovalAmountIsMintedSupply ==
  \A j \in Submits("approve") : log[j].amount = MintedSupply

\* A run that loaded its tokens from the cache approves 10^39.
ApprovalFromCacheWitness ==
  /\ runs > 0 /\ ~create /\ Populated(loaded)
  /\ \E j \in Submits("approve") : log[j].amount = <<1>> \o Zeros(39)

\* The value of the first 32 bytes of the answers the quoter gives here that
\* hold 32 bytes.
FirstWordValue(data) ==
  IF data = UsualQuote THEN <<5>> \o Zeros(17)
  ELSE IF data = Hex0x(Word(<<68, 101>>)) THEN <<2, 2, 2>>
  ELSE Undefined

\* C7. A swap is submitted only after a quote whose data hold a first
\* uint256, and its amountIn is that value exactly; a quote without data is
\* followed by no swap.
SwapAmountDerivation ==
  /\ Cardinality(Entries("quote", "")) <= 1
  /\ \A j \in Submits("swap") :
       \E q \in Entries("quote", "") :
         /\ q < j
         /\ FirstWordValue(log[q].data) # Undefined
         /\ log[j].amount = FirstWordValue(log[q].data)
  /\ \A q \in Entries("quote", "") :
       log[q].data = Undefined => (Submits("swap") = {} /\ pc = "failed")

SwapAmountWitness ==
  \E j \in Submits("swap") : \E q \in Entries("quote", "") :
    /\ log[q].data = UsualQuote
    /\ log[j].amount = <<5>> \o Zeros(17)

\* The run did not get past the pool address: no initialize, no cache write.
ResolutionFailed ==
  /\ newPoolAddress = Undefined
  /\ pc = "failed"
  /\ Submits("initialize") = {}
  /\ Entries("save", "") = {}
  /\ CacheRecord(cacheFile) = CacheRecord(loaded)

\* The pool address is the address the last 20 bytes of the data spell.
ResolvedFromData(data) ==
  /\ newPoolAddress # Undefined
  /\ toLowerCase(newPoolAddress) = toLowerCase(Hex0x(SliceLast(data, AddrHexLen)))

\* C8 as amended. The pool address is the receipt's contract address when
\* present; otherwise the last 20 bytes of the first log's data when that data
\* is present and holds at least 20 bytes; otherwise (no log, no data, or fewer
\* than 20 bytes of data) resolution fails, no initialize is issued and the
\* cache is not written.
PoolAddressResolution ==
  \A r \in Entries("receipt", "createPool") :
    IF log[r].to # Undefined THEN newPoolAddress = log[r].to
    ELSE IF log[r].data # Undefined /\ Len(log[r].data) >= 2 + AddrHexLen
         THEN ResolvedFromData(log[r].data)
         ELSE ResolutionFailed

\* The address came from the event data, and initialize went out for it.
PoolAddressFromLogWitness ==
  /\ Submits("initialize") # {}
  /\ \E r \in Entries("receipt", "createPool") :
       /\ log[r].to = Undefined
       /\ log[r].data = PoolCreatedData(newPoolAddress)

\* C8 as stated. The pool address is the receipt's contract address when
\* present; otherwise the last 20 bytes of the first log's data when that data
\* is present; otherwise resolution fails.
PoolAddressResolutionAsStated ==
  \A r \in Entries("receipt", "createPool") :
    IF log[r].to # Undefined THEN newPoolAddress = log[r].to
    ELSE IF log[r].data # Undefined
         THEN ResolvedFromData(log[r].data)
         ELSE ResolutionFailed

\* The pool read of this run, when there was one.
PoolReads == Entries("poolRead", "")

Abs(x) == IF x < 0 THEN -x ELSE x

\* C9. The position built for the mint has tickLower = n - 2s and
\* tickUpper = n + 2s for a multiple n of the spacing s nearest to the live
\* tick, so tickUpper - tickLower = 4s and both are multiples of s; the mint
\* is prepared from that position.
TickRangeSymmetry ==
  /\ position # NoPosition =>
       \E r \in PoolReads :
         LET s == log[r].tickSpacing
             t == log[r].tick
             n == position.tickLower + 2 * s
         IN /\ s > 0
            /\ position.tickUpper = n + 2 * s
            /\ position.tickUpper - position.tickLower = 4 * s
            /\ position.tickLower % s = 0
            /\ position.tickUpper % s = 0
            /\ n % s = 0
            /\ 2 * Abs(n - t) <= s
  /\ \A m \in Submits("mint") :
       /\ position # NoPosition
       /\ log[m].tickLower = position.tickLower
       /\ log[m].tickUpper = position.tickUpper

\* The mint prepared for the tick -15 with spacing 10: the range -30..10.
TickRangeWitness ==
  /\ \E r \in PoolReads : log[r].tick = -15 /\ log[r].tickSpacing = 10
  /\ \E m \in Submits("mint") : log[m].tickLower = -30 /\ log[m].tickUpper = 10

\* A run that loaded both tokens and was not told to create.
SkipsBootstrap ==
  runs > 0 /\ ~create /\ loaded.tokenOne # NoToken /\ loaded.tokenTwo # NoToken

\* C10. The cache record changes only in the step that ends the bootstrap,
\* at most once in a run; all other steps leave it as it is, so a run that
\* skips the bootstrap keeps the file it loaded.
CacheFrame ==
  /\ [](Cardinality(Entries("save", "")) <= 1)
  /\ [](SkipsBootstrap => cacheFile = loaded)
  /\ [][CacheRecord(cacheFile') # CacheRecord(cacheFile) =>
          /\ pc = "initialize" /\ pc' = "allowance"
          /\ Entries("save", "") = {}
          /\ log'[Len(log')].ev = "save"]_vars

\* A run that skipped the bootstrap and went through mint and swap.
CacheFrameWitness ==
  /\ SkipsBootstrap
  /\ pc = "done"
  /\ Entries("receipt", "mint") # {} /\ Entries("receipt", "swap") # {}
  /\ cacheFile = loaded

\* The tokens that were on chain when this run started.
DeployedBefore == DOMAIN allowStart

\* C11. A run without --create that starts after earlier runs had tokens
\* deployed does not deploy again: the bootstrap steps already done are
\* skipped.
NoRedeployAfterAbort ==
  (runs > 0 /\ ~create /\ DeployedBefore # {}) =>
    (Submits("deploy") = {} /\ Submits("createPool") = {})

\* The run after an abort found the cache empty and deploys again.
RedeployAfterAbortWitness ==
  /\ runs = 2 /\ ~create /\ DeployedBefore # {}
  /\ CacheRecord(loaded) = CacheRecord(AbsentFile)
  /\ Cardinality(Submits("deploy")) = 2
  /\ Submits("createPool") # {}

\* The entry is a failure the code throws on: a deployment receipt without
\* contract address, a createPool receipt no pool address can be taken from,
\* or a quote without data.
Thrown(e) ==
  \/ e.ev = "receipt" /\ e.kind = "deploy" /\ e.to = Undefined
  \/ /\ e.ev = "receipt" /\ e.kind = "createPool" /\ e.to = Undefined
     /\ (e.data = Undefined \/ Len(e.data) < 2 + AddrHexLen)
  \/ e.ev = "quote" /\ e.data = Undefined

\* The entry is the receipt of a transaction that reverted.
Reverted(e) == e.ev = "receipt" /\ e.status = "reverted"

\* Nothing is submitted and the cache is not written after entry i.
NothingAfter(i) ==
  \A j \in (i + 1)..Len(log) : log[j].ev \notin {"submit", "save"}

\* C12. After a failure of a step - a deployment receipt without contract
\* address, an unresolvable pool address, a quote without data, a reverted
\* transaction - the run submits nothing more and does not write the cache.
FatalAbort ==
  \A i \in 1..Len(log) : (Thrown(log[i]) \/ Reverted(log[i])) => NothingAfter(i)

\* An approval reverted and the run went on to submit the next transaction.
RevertedThenSubmitWitness ==
  \E i \in Entries("receipt", "approve") :
    /\ log[i].status = "reverted"
    /\ \E j \in (i + 1)..Len(log) : log[j].ev = "submit"

\* The transactions submitted in this run, and the receipts received.
AllSubmits == {i \in 1..Len(log) : log[i].ev = "submit"}

AllReceipts == {i \in 1..Len(log) : log[i].ev = "receipt"}

\* C13. Every submitted transaction is followed directly by its own receipt:
\* nothing else is submitted or read in between, and at most one transaction
\* is without receipt at any time.
NoOverlappingTransactions ==
  /\ \A i \in AllSubmits :
       IF i < Len(log)
       THEN log[i + 1].ev = "receipt" /\ log[i + 1].kind = log[i].kind
       ELSE pending = log[i]
  /\ \A i \in AllReceipts :
       i > 1 /\ log[i - 1].ev = "submit" /\ log[i - 1].kind = log[i].kind
  /\ Cardinality(AllSubmits) - Cardinality(AllReceipts) \in {0, 1}
  /\ (pending # NoTx => (Len(log) > 0 /\ log[Len(log)] = pending))

\* A run that went through all ten transactions.
NoOverlapWitness ==
  /\ pc = "done"
  /\ Cardinality(AllSubmits) = 10
  /\ Cardinality(AllReceipts) = 10

\* Every entry of the first kind comes before every entry of the second.
AllBefore(first, second) == \A i \in first : \A j \in second : i < j

\* C14. In a run that completed: the four allowance reads and all approvals,
\* with their receipts, come before the mint is submitted; the mint's receipt
\* comes before the quote; the quote before the swap; the cache write of a
\* bootstrap before the first allowance read; and there is exactly one mint
\* and exactly one swap.
StepOrder ==
  pc = "done" =>
    /\ Cardinality(Submits("mint")) = 1
    /\ Cardinality(Submits("swap")) = 1
    /\ Cardinality(Entries("receipt", "mint")) = 1
    /\ Cardinality(Entries("quote", "")) = 1
    /\ Cardinality(Entries("allowance", "")) = 4
    /\ AllBefore(Entries("allowance", ""), Submits("mint"))
    /\ AllBefore(Entries("receipt", "approve"), Submits("mint"))
    /\ Cardinality(Entries("receipt", "approve")) = Cardinality(Submits("approve"))
    /\ AllBefore(Entries("receipt", "mint"), Entries("quote", ""))
    /\ AllBefore(Entries("quote", ""), Submits("swap"))
    /\ AllBefore(Entries("save", ""), Entries("allowance", ""))
    /\ (BootstrapRun <=> Entries("save", "") # {})

\* A completed bootstrap run that approved all four pairs.
StepOrderWitness ==
  /\ pc = "done"
  /\ Entries("save", "") # {}
  /\ Cardinality(Entries("receipt", "approve")) = 4
  /\ log[Len(log)].kind = "swap"

\* A transaction of the bootstrap failed: its receipt holds no usable
\* address, or it reverted.
BootstrapStepFailed ==
  \E i \in 1..Len(log) :
    /\ log[i].ev = "receipt" /\ log[i].kind \in BootKinds
    /\ (Thrown(log[i]) \/ Reverted(log[i]))

\* The receipts of a kind received before entry w.
ReceiptsBefore(kind, w) == {i \in Entries("receipt", kind) : i < w}

\* C15. The cache is written only after the receipts of two deployments, of
\* createPool and of initialize; if one of these transactions failed, or the
\* run has not written the cache, the cache record is the one the run started
\* with, also in a --create run on a populated cache.
SaveOnCompletion ==
  /\ \A w \in Entries("save", "") :
       /\ Cardinality(ReceiptsBefore("deploy", w)) = 2
       /\ Cardinality(ReceiptsBefore("createPool", w)) = 1
       /\ Cardinality(ReceiptsBefore("initialize", w)) = 1
  /\ (Entries("save", "") = {} => CacheRecord(cacheFile) = CacheRecord(loaded))
  /\ (BootstrapStepFailed => CacheRecord(cacheFile) = CacheRecord(loaded))
  /\ ((create /\ Populated(loaded) /\ BootstrapStepFailed) => cacheFile = loaded)

\* The cache was written although the initialize transaction reverted.
SaveAfterRevertWitness ==
  /\ Entries("save", "") # {}
  /\ \E i \in Entries("receipt", "initialize") : log[i].status = "reverted"
  /\ cacheFile # loaded
  /\ cacheFile.poolAddress = newPoolAddress

\* C16. A run whose balance read returned zero has failed without
\* submitting or reading anything else and without touching the cache or the
\* chain, whether it would have bootstrapped or resumed.
ZeroBalanceAborts ==
  (runs > 0 /\ ethBalance = BigZero) =>
    /\ pc = "failed"
    /\ log = <<>>
    /\ pending = NoTx
    /\ CacheRecord(cacheFile) = CacheRecord(loaded)
    /\ allow = allowStart

\* A resumed run on a populated cache that read a zero balance.
ZeroBalanceWitness ==
  /\ runs = 2 /\ ~create /\ Populated(loaded)
  /\ ethBalance = BigZero
  /\ pc = "failed"

\* The entry is the receipt of a transaction that changed a pool.
PoolChanging(e) ==
  /\ e.ev = "receipt" /\ e.status = "success"
  /\ e.kind \in {"createPool", "initialize", "mint", "swap"}

\* No pool-changing transaction of the run is confirmed between two entries.
NoPoolChangeBetween(r, u) ==
  \A k \in (r + 1)..(u - 1) : ~PoolChanging(log[k])

\* The places where the pool object is used: the mint prepared from the
\* position, and the quote made for the route.
PoolUses == Submits("mint") \cup Entries("quote", "")

\* C17 as amended. The tick the position and the swap route are built with is
\* the one read from the chain in this run, by the one pool read of the run;
\* nothing changes the pool between that read and the submission of the mint;
\* the pool is not read again, so the route is built from what was read
\* before the run's own mint was confirmed.
FreshPoolStateAtMint ==
  /\ Cardinality(PoolReads) <= 1
  /\ \A u \in PoolUses : \E r \in PoolReads : r < u /\ log[u].tick = log[r].tick
  /\ \A m \in Submits("mint") : \A r \in PoolReads : NoPoolChangeBetween(r, m)
  /\ \A q \in Entries("quote", "") : \A r \in PoolReads :
       \E m \in Entries("receipt", "mint") : r < m /\ m < q

\* The quote was made for a pool read before the mint that went through.
StalePoolAtQuoteWitness ==
  \E r \in PoolReads : \E q \in Entries("quote", "") :
    /\ log[r].tick = -15
    /\ log[q].tick = -15
    /\ \E m \in Entries("receipt", "mint") : r < m /\ m < q /\ PoolChanging(log[m])

\* C17 as stated. The tick the position and the swap route are built with is
\* read from the chain, and no pool-changing transaction of the run is
\* confirmed between the read and the use.
FreshPoolState ==
  \A u \in PoolUses :
    \E r \in PoolReads :
      r < u /\ log[u].tick = log[r].tick /\ NoPoolChangeBetween(r, u)

\* C18. The amount the quote is asked for is one unit of the input token in
\* 18 decimals: 10^18.
QuoteInputIsOneUnit ==
  \A q \in Entries("quote", "") : log[q].amount = <<1>> \o Zeros(18)

\* The quote is asked for 10^36.
QuoteInputWitness ==
  \E q \in Entries("quote", "") : log[q].amount = <<1>> \o Zeros(36)

\* The first address is the lower one when case is ignored.
Ordered(a, b) == StrLess(toLowerCase(a), toLowerCase(b))

\* C19. Whatever order the cache or the deployments give the tokens in, the
\* pool object has the lower address as token0 and the higher as token1, the
\* two being the run's tokens; the mint is prepared for that pool; the route
\* quoted and the swap go from token0 to token1.
CanonicalOrderEveryRun ==
  /\ pool # NoPool =>
       /\ Ordered(pool.token0, pool.token1)
       /\ {toLowerCase(pool.token0), toLowerCase(pool.token1)}
            = {toLowerCase(a) : a \in RunTokens}
  /\ \A i \in Submits("mint") \cup Entries("quote", "") \cup Submits("swap") :
       /\ pool # NoPool
       /\ log[i].tokenA = pool.token0
       /\ log[i].tokenB = pool.token1
       /\ Ordered(log[i].tokenA, log[i].tokenB)

\* A run on a cache whose tokenOne has the higher address swapped from the
\* lower to the higher token.
CanonicalOrderEditedWitness ==
  /\ runs > 0 /\ ~create /\ Populated(loaded)
  /\ Ordered(loaded.tokenTwo.address, loaded.tokenOne.address)
  /\ \E i \in Submits("swap") :
       /\ toLowerCase(log[i].tokenA) = toLowerCase(loaded.tokenTwo.address)
       /\ toLowerCase(log[i].tokenB) = toLowerCase(loaded.tokenOne.address)

\* The run has just loaded a cache record that a bootstrap run of main wrote.
LoadedWrittenRecord ==
  /\ runs > 0 /\ pc = "getBalance"
  /\ Populated(loaded) /\ loaded # EditedCache

\* The token main holds has the address, name and symbol of the cached one.
SameIdentity(t, cached) ==
  /\ t.address = cached.address
  /\ t.tokenName = cached.tokenName
  /\ t.tokenSymbol = cached.tokenSymbol

\* C20. The token records a run loads from the cache equal the ones the
\* bootstrap wrote in address, name, symbol and supply: the supply is the one
\* the tokens were deployed with, 10^21.
CacheRoundTrip ==
  LoadedWrittenRecord =>
    /\ SameIdentity(tokenOne, loaded.tokenOne)
    /\ SameIdentity(tokenTwo, loaded.tokenTwo)
    /\ tokenOne.tokenSupply = MintedSupply
    /\ tokenTwo.tokenSupply = MintedSupply

\* The loaded tokens are the written ones except for the supply, 10^39.
CacheRoundTripWitness ==
  /\ LoadedWrittenRecord
  /\ SameIdentity(tokenOne, loaded.tokenOne)
  /\ SameIdentity(tokenTwo, loaded.tokenTwo)
  /\ loaded.tokenOne.tokenSupply = String(MintedSupply)
  /\ tokenOne.tokenSupply = <<1>> \o Zeros(39)
  /\ tokenTwo.tokenSupply = <<1>> \o Zeros(39)

====
